---- MODULE Spec2Model ----
(***************************************************************************)
(* Model of ex-bootstrap.                                                  *)
(*                                                                         *)
(* The fleet dispatch of the `firmware status` command                     *)
(* (cmd/firmware_status.go, firmwareStatusCmd.RunE): the main goroutine    *)
(* validates its configuration, spawns one goroutine per host, waits for   *)
(* all of them and prints the aggregate.  Each host goroutine takes a      *)
(* token of the counting channel `sem`, derives its context, queries every *)
(* firmware target, records errors and the version under the mutex `mu`,   *)
(* bumps the atomic in-progress counter, and releases its token.           *)
(*                                                                         *)
(* The address pool (ipam.go: newAllocator, reserve, next, firstHost) over *)
(* go-ipam, and the discovery run of main() (main.go) that reserves the    *)
(* addresses of the existing node records, asks each controller for its    *)
(* bootable NICs and gives each node its old address or the next one; the  *)
(* NICs are chosen by isBootable, with the first NIC that has a MAC as the  *)
(* fallback.                                                               *)
(***************************************************************************)
EXTENDS Integers, Sequences, FiniteSets, TLC

\* ------------------------------------------------------------------ bounds
\* Hosts and batch sizes of the gate runs; hosts of the aggregate runs.
MaxHosts == 3
MaxBatch == 3
AggHosts == 2
\* Ticks of the clock in the runs with deadlines.
MaxTime == 3
\* Host bits of the largest prefix of the pool runs; failing calls counted.
MaxHostBits == 3
MaxErrs == 2
\* Different addresses passed to reserve in one pool run.
MaxReserves == 2
\* Controllers, and existing node records, of a discovery run.
MaxBmcs == 2
MaxNodes == 2

\* --------------------------------------------------------------- constants
NoTask == 0
UNKNOWN == "(unknown)"

Max(a, b) == IF a >= b THEN a ELSE b
Min(a, b) == IF a <= b THEN a ELSE b

Tasks == 1..MaxHosts

\* ----------------------------------------------------------------- strings
\* A Go string that the code inspects is a sequence of one-character strings.
LowerOf(c) ==
    CASE c = "A" -> "a" [] c = "B" -> "b" [] c = "C" -> "c" [] c = "D" -> "d"
      [] c = "E" -> "e" [] c = "F" -> "f" [] c = "G" -> "g" [] c = "H" -> "h"
      [] c = "I" -> "i" [] c = "J" -> "j" [] c = "K" -> "k" [] c = "L" -> "l"
      [] c = "M" -> "m" [] c = "N" -> "n" [] c = "O" -> "o" [] c = "P" -> "p"
      [] c = "Q" -> "q" [] c = "R" -> "r" [] c = "S" -> "s" [] c = "T" -> "t"
      [] c = "U" -> "u" [] c = "V" -> "v" [] c = "W" -> "w" [] c = "X" -> "x"
      [] c = "Y" -> "y" [] c = "Z" -> "z" [] OTHER -> c

ToLower(s) == [i \in 1..Len(s) |-> LowerOf(s[i])]

Contains(s, sub) ==
    \E k \in 0..(Len(s) - Len(sub)) :
        \A j \in 1..Len(sub) : s[k + j] = sub[j]

\* -------------------------------------------------------------------- maps
\* A Go map is a function whose domain is the set of keys present.
EmptyMap == << >>
MapPut(m, k, v) == [x \in (DOMAIN m) \cup {k} |-> IF x = k THEN v ELSE m[x]]
MapGet(m, k) == IF k \in DOMAIN m THEN m[k] ELSE 0

RECURSIVE SumOver(_, _)
SumOver(m, keys) ==
    IF keys = {} THEN 0
    ELSE LET k == CHOOSE x \in keys : TRUE
         IN  m[k] + SumOver(m, keys \ {k})
MapSum(m) == SumOver(m, DOMAIN m)

\* ------------------------------------------------------- firmware responses
\* What redfish.GetFirmwareInventory can hand back for one (host, target):
\* an error, or an inventory record with Version, State and Conditions.
Inv(v, st, conds) == [Version |-> v, State |-> st, Conditions |-> conds]
Cond(msg, sev) == [Message |-> msg, Severity |-> sev]

Healthy == Inv("v1", <<"E","n","a","b","l","e","d">>, << >>)

Updating == Inv("v2", <<"U","p","d","a","t","i","n","g">>, << >>)

Inventories ==
    { Healthy,
      Updating,
      Inv("",   <<"O","K">>,
                << Cond(<<"I","n","s","t","a","l","l"," ","R","u","n","n","i","n","g">>, "OK"),
                   Cond(<<"i","d","l","e">>, "Critical") >>),
      Inv("",   << >>, << >>) }

\* A fleet: the inventories its BMCs answer with, and whether a query can fail.
Fleet(invs, fails) == [answers |-> invs, fails |-> fails]

\* The error of a failed query names the call it came from.
ErrorOf(h, t) == <<h, t>>

VARIABLES
    user, pass,          \* REDFISH_USER, REDFISH_PASSWORD ("" when unset)
    hosts,               \* resolved host list (a sequence of host names)
    fwBatchSize,         \* --batch-size
    nTargets,            \* len(targets)
    fleet,               \* what the BMCs of this fleet answer to a query
    fwTimeout,           \* --timeout, in ticks of the clock
    now,                 \* the clock
    parentDone,          \* cmd.Context() has been cancelled
    deadline,            \* per goroutine: deadline of its ctx (when fwTimeout > 0)
    mainpc,              \* position of RunE
    idx,                 \* index of the `for _, host := range hosts` loop
    result,              \* what RunE returned: "none", "nil" or an error
    printed,             \* the summaries printed (each a read of the aggregate)
    sem,                 \* number of tokens in the channel sem
    mu,                  \* holder of the mutex (NoTask when free)
    wg,                  \* WaitGroup counter
    versionCounts,       \* map version -> count
    inProgress,          \* int32 counter
    errorsList,          \* map host -> error
    pc,                  \* position of each host goroutine
    tgt,                 \* per goroutine: index of the target being queried
    ver,                 \* per goroutine: local `ver`
    anyInProgress,       \* per goroutine: local `anyInProgress`
    tmp,                 \* per goroutine: the count read by `versionCounts[ver]++`
    failed,              \* history, per goroutine: last target whose query failed
    nInd,                \* history, per goroutine: in-progress indications seen (capped)
    failedNames,         \* history: hosts with at least one failed query
    indicated,           \* history: number of goroutines that saw an indication
    noVersion,           \* history: goroutines no target gave a version to
    maxConcurrent,       \* history: peak number of operations in flight
    admittedAt,          \* history, per goroutine: when it passed the gate
    cidr,                \* --subnet, the CIDR of the pool
    alloc,               \* newAllocator: "none" before, then "ok" or "error"
    ips,                 \* the acquired addresses of the prefix
    handed,              \* history: the addresses next() returned, in order
    passed,              \* history: the addresses passed to reserve()
    atCreate,            \* history: the acquired set newAllocator left
    nextErrs,            \* history: calls of next() that failed
    reserveErrs,         \* history: calls of reserve() that reported an error
    bmcs,                \* doc.BMCs: the xnames of the controllers
    nics,                \* per controller: what its Redfish service answers
    nodes,               \* doc.Nodes: the existing node records
    out,                 \* the node records of this run
    dpc,                 \* position of main()
    bi,                  \* index of `for _, b := range doc.BMCs`
    ni,                  \* index of `for idx, nic := range bootable`
    run,                 \* which run of discovery this is
    warned,              \* the WARN lines of this run, in order
    nic,                 \* the interface record handed to isBootable
    verdict              \* what isBootable returned for it ("" before the call)

vars == << user, pass, hosts, fwBatchSize, nTargets, fleet, fwTimeout, now,
           parentDone, deadline, mainpc, idx, result,
           printed, sem, mu, wg, versionCounts, inProgress, errorsList,
           pc, tgt, ver, anyInProgress, tmp, failed, nInd, failedNames, indicated,
           noVersion, maxConcurrent, admittedAt,
           cidr, alloc, ips, handed, passed, atCreate, nextErrs, reserveErrs,
           bmcs, nics, nodes, out, dpc, bi, ni, run, warned, nic, verdict >>

inputs == << user, pass, hosts, fwBatchSize, nTargets, fleet, fwTimeout >>
clock == << now, parentDone >>
ctxs == << deadline, admittedAt >>
pool == << cidr, alloc, ips >>
poolHistory == << handed, passed, atCreate, nextErrs, reserveErrs >>
discovery == << bmcs, nics, nodes, out, dpc, bi, ni, run, warned >>
classifier == << nic, verdict >>
elsewhere == << pool, poolHistory, discovery, classifier >>
aggregate == << versionCounts, inProgress, errorsList >>
locals == << tgt, ver, anyInProgress, tmp >>
history == << failed, nInd, failedNames, indicated, noVersion >>

NumHosts == Len(hosts)

\* Host lists, up to renaming of the hosts: n different hosts, or n hosts of
\* which the last is the first one again (a host may be listed twice).
DistinctHosts(n) == [i \in 1..n |-> i]
RepeatingHosts(n) == [i \in 1..n |-> IF i = n THEN 1 ELSE i]

\* -------------------------------------------------- in-progress detection
\* st != "" && st != "enabled" && st != "ok", on the lower-cased state
StateIndicates(inv) ==
    LET st == ToLower(inv.State)
    IN  /\ st /= << >>
        /\ st /= <<"e","n","a","b","l","e","d">>
        /\ st /= <<"o","k">>

MessageIndicates(c) ==
    LET m == ToLower(c.Message)
    IN  \/ Contains(m, <<"u","p","d","a","t">>)
        \/ Contains(m, <<"i","n"," ","p","r","o","g","r","e","s","s">>)
        \/ Contains(m, <<"i","n","s","t","a","l","l">>)
        \/ Contains(m, <<"r","u","n","n","i","n","g">>)

SeverityIndicates(c) == c.Severity = "Warning" \/ c.Severity = "Critical"

\* Whether the loop body sets anyInProgress for this inventory.
SetsInProgress(inv) ==
    \/ StateIndicates(inv)
    \/ \E k \in 1..Len(inv.Conditions) :
          MessageIndicates(inv.Conditions[k]) \/ SeverityIndicates(inv.Conditions[k])

\* How many of the checks of the loop body fire for this inventory.
Indications(inv) ==
    (IF StateIndicates(inv) THEN 1 ELSE 0)
    + Cardinality({k \in 1..Len(inv.Conditions) : MessageIndicates(inv.Conditions[k])})
    + Cardinality({k \in 1..Len(inv.Conditions) : SeverityIndicates(inv.Conditions[k])})

\* The two, for every inventory a BMC can answer with.
LoopBody == [inv \in Inventories |->
                [sets |-> SetsInProgress(inv), indications |-> Indications(inv)]]

\* ---------------------------------------------------------- the gate, etc.
\* Slips of the capacity: one token too many; a batch size below 1 read as
\* "no limit"; the number of targets taken for the batch size.
SemCap_OneMore == Max(1, fwBatchSize) + 1
SemCap_ZeroUnlimited == IF fwBatchSize < 1 THEN MaxHosts ELSE fwBatchSize
SemCap_WrongVar == Max(1, nTargets)

\* sem := make(chan struct{}, max(1, fwBatchSize))
SemCap == Max(1, fwBatchSize)

\* Slip: the last slot of the buffer is never used.
CanSend_Strict == sem + 1 < Max(2, SemCap)

\* `sem <- struct{}{}` can proceed when the channel buffer has room.
CanSend == sem < SemCap

\* Slip: no wg.Wait() before the summary.
WaitReturns_NoWait == TRUE

\* wg.Wait() returns when the counter is zero.
WaitReturns == wg = 0

\* Slip: the aggregate is written without the mutex.
CanLock_NoMutex == TRUE

\* mu.Lock() returns when nobody holds the mutex.
CanLock == mu = NoTask

\* Goroutine positions between `sem <- struct{}{}` and the deferred `<-sem`.
HoldingPcs ==
    {"query", "lockE", "writeE", "lockV", "readV", "storeV", "add", "release"}
InFlight == {i \in Tasks : pc[i] \in HoldingPcs}

\* Slip: the goroutines share the loop variable `host` of the spawning loop.
HostOf_LoopVar(i) == hosts[Min(idx, NumHosts)]

\* h := host: each goroutine has its own copy of the loop variable.
HostOf(i) == hosts[i]

\* Slip: every target that reports a version replaces the one found before.
VerAfter_LastFound(v, inv) == IF inv.Version = "" THEN v ELSE inv.Version

\* `if ver == "" { ver = inv.Version }`
VerAfter(v, inv) == IF v = "" THEN inv.Version ELSE v

\* `if ver == "" { ver = "(unknown)" }`
FinalVer(v) == IF v = "" THEN UNKNOWN ELSE v

\* `anyInProgress = true` in the loop body
AnyInProgressAfter(a, inv) == a \/ LoopBody[inv].sets

\* Slip: a failed query ends the goroutine (`return` instead of `continue`).
OnQueryError_Return == "release"

\* Where a goroutine goes on a query error: record it under the mutex.
OnQueryError == "lockE"

\* errorsList[h] = err.Error()
ErrorsAfter(i) == MapPut(errorsList, HostOf(i), ErrorOf(HostOf(i), tgt[i]))

\* Slip: a host without a version is left out of the counts.
CountsAfter_SkipUnknown(i) ==
    IF ver[i] = UNKNOWN THEN versionCounts
    ELSE MapPut(versionCounts, ver[i], tmp[i] + 1)

\* versionCounts[ver]++ reads the count, then stores the count plus one.
CountRead(i) == MapGet(versionCounts, ver[i])
CountsAfter(i) == MapPut(versionCounts, ver[i], tmp[i] + 1)

\* `if anyInProgress { atomic.AddInt32(&inProgress, 1) }`
AfterCount(i) == IF anyInProgress[i] THEN "add" ELSE "release"

\* Slip: the counter is bumped once per indication.
InProgressAfter_PerIndication(i) == inProgress + nInd[i]

InProgressAfter(i) == inProgress + 1

\* ---------------------------------------------------------- the IP pool
\* An address is a number (the offset from 10.42.0.0, or from fd00:: in an
\* IPv6 prefix); "" where the code has no address is NoAddr.  A CIDR is its
\* text ("ok" when it parses, "bad" when it does not, "" when not given), its
\* family, its network address and its number of host bits.
NoAddr == -1
Octet == 256

CidrOf(v4, base, hostbits) ==
    [text |-> "ok", v4 |-> v4, base |-> base, hostbits |-> hostbits]
BadCidr == [text |-> "bad", v4 |-> TRUE, base |-> 0, hostbits |-> 0]
NoCidr == [text |-> "", v4 |-> TRUE, base |-> 0, hostbits |-> 0]

SizeOf(c) == 2 ^ c.hostbits
Network(c) == c.base
Broadcast(c) == c.base + SizeOf(c) - 1
PrefixAddrs(c) == Network(c)..Broadcast(c)
Free(c, acquired) == PrefixAddrs(c) \ acquired
Lowest(S) == CHOOSE a \in S : \A b \in S : a <= b

\* The prefixes of the pool runs: both families, every size up to
\* 2^MaxHostBits, at the start of an octet, at its end, and the /32 whose
\* last octet is 255.
PoolBases == {0, Octet - (2 ^ MaxHostBits), Octet - 1}
Cidrs ==
    { c \in { CidrOf(v4, b, k) : v4 \in BOOLEAN, b \in PoolBases,
                                 k \in 0..MaxHostBits } :
        Network(c) % SizeOf(c) = 0 }

\* 10.42.0.0/30
Scenario30 == CidrOf(TRUE, 0, 2)

\* go-ipam, as the allocator contract states it.
\* NewPrefix: fails on a CIDR that does not parse; the network address and,
\* for IPv4, the broadcast address are never allocated.
NewPrefix(c) ==
    [err |-> c.text /= "ok",
     ips |-> {Network(c)} \cup (IF c.v4 THEN {Broadcast(c)} ELSE {})]

\* AcquireSpecificIP: marks the address; an error, and nothing marked, when it
\* lies outside the prefix or is acquired already.
AcquireSpecificIP(c, acquired, ip) ==
    LET ok == ip \in PrefixAddrs(c) /\ ip \notin acquired
    IN  [err |-> ~ok, ips |-> IF ok THEN acquired \cup {ip} ELSE acquired]

\* AcquireIP: selects the lowest address not acquired and marks it, in one
\* step; an error when none is left.
AcquireIP(c, acquired) ==
    IF Free(c, acquired) = {}
    THEN [err |-> TRUE, ip |-> NoAddr, ips |-> acquired]
    ELSE LET a == Lowest(Free(c, acquired))
         IN  [err |-> FALSE, ip |-> a, ips |-> acquired \cup {a}]

\* Slip: the gateway is not reserved.
firstHost_None(c) == NoAddr

\* ipam.go firstHost: for IPv4 the network address with its last octet plus
\* one (byte arithmetic), if the prefix contains it; "" otherwise.
firstHost(c) ==
    IF ~c.v4 THEN NoAddr
    ELSE LET ip == ((Network(c) \div Octet) * Octet) + (((Network(c) % Octet) + 1) % Octet)
         IN  IF ip \in PrefixAddrs(c) THEN ip ELSE NoAddr

\* ipam.go newAllocator
newAllocator(c) ==
    LET pr == NewPrefix(c)
        gw == firstHost(c)
    IN  IF pr.err THEN [err |-> TRUE, ips |-> {}]
        ELSE [err |-> FALSE,
              ips |-> IF gw /= NoAddr THEN AcquireSpecificIP(c, pr.ips, gw).ips
                      ELSE pr.ips]

\* Slips: reserve does nothing; reserve hands the library's error on.
reserve_Noop(c, acquired, ip) == [err |-> FALSE, ips |-> acquired]
reserve_Strict(c, acquired, ip) == AcquireSpecificIP(c, acquired, ip)

\* ipam.go reserve: `_, _ = a.ipm.AcquireSpecificIP(...)`, the error is dropped.
reserve(c, acquired, ip) ==
    [err |-> FALSE, ips |-> AcquireSpecificIP(c, acquired, ip).ips]

\* Slips: next drops the error and returns ""; next looks the address up on a
\* pool of its own, so that the allocator's pool never learns of it.
next_SwallowErr(c, acquired) ==
    LET r == AcquireIP(c, acquired)
    IN  [err |-> FALSE, ip |-> r.ip, ips |-> r.ips]
next_Peek(c, acquired) ==
    LET r == AcquireIP(c, acquired)
    IN  [err |-> r.err, ip |-> r.ip, ips |-> acquired]

\* ipam.go next: `if err != nil { return "", err }; return addr.IP.String(), nil`
next(c, acquired) ==
    LET r == AcquireIP(c, acquired)
    IN  IF r.err THEN [err |-> TRUE, ip |-> NoAddr, ips |-> r.ips]
        ELSE [err |-> FALSE, ip |-> r.ip, ips |-> r.ips]

\* Slip: one context with the timeout is made when the run starts and shared.
CtxDeadline_FromStart == fwTimeout

\* ctx, cancel = context.WithTimeout(ctx, fwTimeout): the deadline counts from
\* the call, which follows `sem <- struct{}{}`.
CtxDeadline == now + fwTimeout

\* ctx.Done(): the parent was cancelled, or (only if fwTimeout > 0, else ctx
\* is the parent itself) the goroutine's own deadline has passed.
CtxDone(i) == parentDone \/ (fwTimeout > 0 /\ now >= deadline[i])

\* ------------------------------------------------------------ interfaces
\* rfEthernetInterface, the fields that main() and isBootable read: the MAC,
\* the UEFI device path, the AddressOrigin of each of IPv4Addresses, and
\* InterfaceEnabled, a *bool: "nil", "true" or "false".
Nic(mac, uefi, origins, enabled) ==
    [MACAddress |-> mac, UefiDevicePath |-> uefi, Origins |-> origins,
     InterfaceEnabled |-> enabled]

NoNic == Nic(<< >>, << >>, << >>, "nil")

\* strings.EqualFold, on ASCII text
EqualFold(a, b) == ToLower(a) = ToLower(b)

\* The path hints of isBootable.
PathHints ==
    { <<"p","x","e">>, <<"i","p","v","4">>, <<"i","p","v","6">>,
      <<"m","a","c","(">> }

\* Slip: a disabled interface is never bootable, whatever its path says.
isBootable_DisabledWins(n) ==
    /\ n.InterfaceEnabled /= "false"
    /\ \/ \E h \in PathHints : Contains(ToLower(n.UefiDevicePath), h)
       \/ \E k \in 1..Len(n.Origins) : EqualFold(n.Origins[k], <<"d","h","c","p">>)
       \/ Len(n.MACAddress) > 0

\* isBootable: a path hint; else a DHCP address; else a MAC on an interface
\* that is enabled or does not say.
isBootable(n) ==
    LET uefi == ToLower(n.UefiDevicePath)
    IN  IF \E h \in PathHints : Contains(uefi, h)
        THEN TRUE
        ELSE IF \E k \in 1..Len(n.Origins) :
                    EqualFold(n.Origins[k], <<"d","h","c","p">>)
        THEN TRUE
        ELSE Len(n.MACAddress) > 0 /\ n.InterfaceEnabled \in {"nil", "true"}

\* `nic.MACAddress != ""`
HasMac(n) == Len(n.MACAddress) > 0

\* main.go lines 139-147: the interfaces with a MAC that isBootable accepts.
Wanted(n) == HasMac(n) /\ isBootable(n)
Heuristic(list) == SelectSeq(list, Wanted)

\* Slip: the fallback takes every interface with a MAC.
Fallback_All(list) == SelectSeq(list, HasMac)

\* Lines 149-156: the first interface with a MAC, if there is one.
Fallback(list) ==
    IF Len(SelectSeq(list, HasMac)) = 0 THEN << >>
    ELSE << Head(SelectSeq(list, HasMac)) >>

\* The slice `bootable` when the allocation loop starts (line 163).
Bootable(list) ==
    IF Len(Heuristic(list)) = 0 THEN Fallback(list) ELSE Heuristic(list)

\* No interface has been classified.
ClassifierStart ==
    /\ nic = NoNic
    /\ verdict = ""

\* ----------------------------------------------------------------- Init
DispatchStart ==
    /\ now = 0
    /\ parentDone = FALSE
    /\ deadline = [i \in Tasks |-> 0]
    /\ admittedAt = [i \in Tasks |-> 0]
    /\ mainpc = "start"
    /\ idx = 1
    /\ result = "none"
    /\ printed = << >>
    /\ sem = 0
    /\ mu = NoTask
    /\ wg = 0
    /\ versionCounts = EmptyMap
    /\ inProgress = 0
    /\ errorsList = EmptyMap
    /\ pc = [i \in Tasks |-> "idle"]
    /\ tgt = [i \in Tasks |-> 1]
    /\ ver = [i \in Tasks |-> ""]
    /\ anyInProgress = [i \in Tasks |-> FALSE]
    /\ tmp = [i \in Tasks |-> 0]
    /\ failed = [i \in Tasks |-> 0]
    /\ nInd = [i \in Tasks |-> 0]
    /\ failedNames = {}
    /\ indicated = 0
    /\ noVersion = 0
    /\ maxConcurrent = 0

\* No pool yet.
PoolStart ==
    /\ alloc = "none"
    /\ ips = {}
    /\ handed = << >>
    /\ passed = {}
    /\ atCreate = {}
    /\ nextErrs = 0
    /\ reserveErrs = 0

\* main() has not begun.
DiscoveryStart ==
    /\ out = << >>
    /\ dpc = "start"
    /\ bi = 1
    /\ ni = 1
    /\ run = 1
    /\ warned = << >>

\* The dispatch alone: no subnet, no inventory of controllers and nodes.
InitWith(hostLists, batches, targetCounts, fleets, timeouts) ==
    /\ fwTimeout \in timeouts
    /\ user \in {"", "root"}
    /\ pass \in {"", "secret"}
    /\ hosts \in hostLists
    /\ fwBatchSize \in batches
    /\ nTargets \in targetCounts
    /\ fleet \in fleets
    /\ DispatchStart
    /\ PoolStart
    /\ DiscoveryStart
    /\ ClassifierStart
    /\ cidr = NoCidr
    /\ bmcs = << >>
    /\ nics = << >>
    /\ nodes = << >>

\* Every batch size, every number of hosts; BMCs that answer (idle or
\* updating) or fail.
InitGate ==
    InitWith({DistinctHosts(n) : n \in 0..MaxHosts}, (-1)..MaxBatch,
             {1}, {Fleet({Healthy, Updating}, TRUE)}, {1})

\* Every answer of a BMC, every number of targets, hosts listed once or twice.
InitAgg ==
    InitWith({DistinctHosts(n) : n \in 0..AggHosts}
                \cup {RepeatingHosts(n) : n \in 2..AggHosts}, {2},
             {1, 2}, {Fleet(Inventories, TRUE)}, {1})

\* Every timeout, a clock that runs and a parent that can be cancelled, over
\* serial and parallel batches of hosts.
InitCtx ==
    InitWith({DistinctHosts(n) : n \in 0..AggHosts}, {1, 2},
             {1}, {Fleet({Updating}, TRUE)}, (-1)..(MaxTime - 1))

\* ------------------------------------------------------ the main goroutine
\* Slip: the credentials are not checked before the dispatch.
Start_NoCredCheck ==
    /\ mainpc = "start"
    /\ IF NumHosts = 0
       THEN mainpc' = "returned" /\ result' = "error: no hosts to query"
       ELSE mainpc' = "spawn" /\ result' = result
    /\ UNCHANGED << elsewhere, clock, ctxs, inputs, idx, printed, sem, mu, wg,
                    aggregate, pc, locals, history, maxConcurrent >>

\* Lines 33-81: credentials and host list are checked before anything else;
\* the targets are fwTargets or the default list, nTargets of them.
Start ==
    /\ mainpc = "start"
    /\ IF user = "" \/ pass = ""
       THEN mainpc' = "returned" /\ result' = "error: credentials required"
       ELSE IF NumHosts = 0
       THEN mainpc' = "returned" /\ result' = "error: no hosts to query"
       ELSE mainpc' = "spawn" /\ result' = result
    /\ UNCHANGED << elsewhere, clock, ctxs, inputs, idx, printed, sem, mu, wg, aggregate, pc, locals,
                    history, maxConcurrent >>

\* Lines 91-94: wg.Add(1); go func() {...}()
Spawn ==
    /\ mainpc = "spawn"
    /\ wg' = wg + 1
    /\ pc' = [pc EXCEPT ![idx] = "sem"]
    /\ idx' = idx + 1
    /\ mainpc' = IF idx = NumHosts THEN "wait" ELSE "spawn"
    /\ UNCHANGED << elsewhere, clock, ctxs, inputs, result, printed, sem, mu, aggregate, locals,
                    history, maxConcurrent >>

\* Line 149: wg.Wait()
Wait ==
    /\ mainpc = "wait"
    /\ WaitReturns
    /\ mainpc' = "summary"
    /\ UNCHANGED << elsewhere, clock, ctxs, inputs, idx, result, printed, sem, mu, wg, aggregate, pc,
                    locals, history, maxConcurrent >>

\* Lines 151-166: print the summary, return nil.
Summary ==
    /\ mainpc = "summary"
    /\ printed' = << [total |-> NumHosts, inProgress |-> inProgress,
                      versions |-> versionCounts, errors |-> errorsList] >>
    /\ result' = "nil"
    /\ mainpc' = "returned"
    /\ UNCHANGED << elsewhere, clock, ctxs, inputs, idx, sem, mu, wg, aggregate, pc, locals, history,
                    maxConcurrent >>

\* ------------------------------------------------------ a host goroutine
\* Lines 96-104: sem <- struct{}{}; ctx := cmd.Context(); with a timeout,
\* ctx = context.WithTimeout(ctx, fwTimeout)
Acquire(i) ==
    /\ pc[i] = "sem"
    /\ CanSend
    /\ sem' = sem + 1
    /\ pc' = [pc EXCEPT ![i] = "query"]
    /\ maxConcurrent' = Max(maxConcurrent, Cardinality(InFlight) + 1)
    /\ deadline' = [deadline EXCEPT ![i] = IF fwTimeout > 0 THEN CtxDeadline ELSE @]
    /\ admittedAt' = [admittedAt EXCEPT ![i] = now]
    /\ UNCHANGED << elsewhere, clock, inputs, mainpc, idx, result, printed, mu, wg, aggregate,
                    locals, history >>

\* End of one iteration of `for _, target := range targets`; a local that is
\* not read again is cleared.
LastTarget(i) == tgt[i] >= nTargets
LoopNextPc(i) == IF LastTarget(i) THEN "lockV" ELSE "query"
LoopNextTgt(i) == IF LastTarget(i) THEN 1 ELSE tgt[i] + 1
LoopNextVer(i, v) == IF LastTarget(i) THEN FinalVer(v) ELSE v

\* Lines 110-133, err == nil: the BMC answered while ctx was live
QueryOk(i, inv) ==
    /\ pc[i] = "query"
    /\ ~CtxDone(i)
    /\ inv \in fleet.answers
    /\ ver' = [ver EXCEPT ![i] = LoopNextVer(i, VerAfter(ver[i], inv))]
    /\ anyInProgress' = [anyInProgress EXCEPT ![i] = AnyInProgressAfter(@, inv)]
    /\ nInd' = [nInd EXCEPT ![i] = Min(2, @ + LoopBody[inv].indications)]
    /\ indicated' = IF nInd[i] = 0 /\ LoopBody[inv].indications > 0
                    THEN indicated + 1 ELSE indicated
    /\ noVersion' = IF LastTarget(i) /\ ver[i] = "" /\ inv.Version = ""
                    THEN noVersion + 1 ELSE noVersion
    /\ failed' = [failed EXCEPT ![i] = IF LastTarget(i) THEN 0 ELSE @]
    /\ tgt' = [tgt EXCEPT ![i] = LoopNextTgt(i)]
    /\ pc' = [pc EXCEPT ![i] = LoopNextPc(i)]
    /\ UNCHANGED << elsewhere, clock, ctxs, inputs, mainpc, idx, result, printed, sem, mu, wg,
                    aggregate, tmp, failedNames, maxConcurrent >>

\* Lines 110-112, err != nil: the query failed, or ctx is done
QueryErr(i) ==
    /\ pc[i] = "query"
    /\ fleet.fails \/ CtxDone(i)
    /\ failed' = [failed EXCEPT ![i] = tgt[i]]
    /\ failedNames' = failedNames \cup {hosts[i]}
    /\ pc' = [pc EXCEPT ![i] = OnQueryError]
    /\ UNCHANGED << elsewhere, clock, ctxs, inputs, mainpc, idx, result, printed, sem, mu, wg,
                    aggregate, locals, nInd, indicated, noVersion,
                    maxConcurrent >>

\* Slip: the error map is written without taking the mutex.
LockE_NoLock(i) ==
    /\ pc[i] = "lockE"
    /\ pc' = [pc EXCEPT ![i] = "writeE"]
    /\ UNCHANGED << elsewhere, clock, ctxs, inputs, mainpc, idx, result, printed,
                    sem, mu, wg, aggregate, locals, history, maxConcurrent >>

\* Line 113: mu.Lock()
LockE(i) ==
    /\ pc[i] = "lockE"
    /\ CanLock
    /\ mu' = i
    /\ pc' = [pc EXCEPT ![i] = "writeE"]
    /\ UNCHANGED << elsewhere, clock, ctxs, inputs, mainpc, idx, result, printed, sem, wg, aggregate,
                    locals, history, maxConcurrent >>

\* Lines 114-116: errorsList[h] = err.Error(); mu.Unlock(); continue
WriteE(i) ==
    /\ pc[i] = "writeE"
    /\ errorsList' = ErrorsAfter(i)
    /\ mu' = NoTask
    /\ ver' = [ver EXCEPT ![i] = LoopNextVer(i, ver[i])]
    /\ noVersion' = IF LastTarget(i) /\ ver[i] = ""
                    THEN noVersion + 1 ELSE noVersion
    /\ failed' = [failed EXCEPT ![i] = IF LastTarget(i) THEN 0 ELSE @]
    /\ tgt' = [tgt EXCEPT ![i] = LoopNextTgt(i)]
    /\ pc' = [pc EXCEPT ![i] = LoopNextPc(i)]
    /\ UNCHANGED << elsewhere, clock, ctxs, inputs, mainpc, idx, result, printed, sem, wg,
                    versionCounts, inProgress, anyInProgress, tmp, nInd,
                    failedNames, indicated, maxConcurrent >>

\* Line 140: mu.Lock()
LockV(i) ==
    /\ pc[i] = "lockV"
    /\ CanLock
    /\ mu' = i
    /\ pc' = [pc EXCEPT ![i] = "readV"]
    /\ UNCHANGED << elsewhere, clock, ctxs, inputs, mainpc, idx, result, printed, sem, wg, aggregate,
                    locals, history, maxConcurrent >>

\* Line 141, first half: read versionCounts[ver]
ReadV(i) ==
    /\ pc[i] = "readV"
    /\ tmp' = [tmp EXCEPT ![i] = CountRead(i)]
    /\ pc' = [pc EXCEPT ![i] = "storeV"]
    /\ UNCHANGED << elsewhere, clock, ctxs, inputs, mainpc, idx, result, printed, sem, mu, wg,
                    aggregate, tgt, ver, anyInProgress, history, maxConcurrent >>

\* Lines 141-144: store versionCounts[ver]; mu.Unlock(); if anyInProgress
StoreV(i) ==
    /\ pc[i] = "storeV"
    /\ versionCounts' = CountsAfter(i)
    /\ mu' = NoTask
    /\ pc' = [pc EXCEPT ![i] = AfterCount(i)]
    /\ ver' = [ver EXCEPT ![i] = ""]
    /\ tmp' = [tmp EXCEPT ![i] = 0]
    /\ anyInProgress' = [anyInProgress EXCEPT ![i] = FALSE]
    /\ UNCHANGED << elsewhere, clock, ctxs, inputs, mainpc, idx, result, printed, sem, wg, inProgress,
                    errorsList, tgt, history, maxConcurrent >>

\* Line 145: atomic.AddInt32(&inProgress, 1)
Add(i) ==
    /\ pc[i] = "add"
    /\ inProgress' = InProgressAfter(i)
    /\ pc' = [pc EXCEPT ![i] = "release"]
    /\ UNCHANGED << elsewhere, clock, ctxs, inputs, mainpc, idx, result, printed, sem, mu, wg,
                    versionCounts, errorsList, locals, history, maxConcurrent >>

\* Slip: a goroutine ends without taking its token back out of sem.
Release_Leak(i) ==
    /\ pc[i] = "release"
    /\ pc' = [pc EXCEPT ![i] = "wgdone"]
    /\ nInd' = [nInd EXCEPT ![i] = 0]
    /\ deadline' = [deadline EXCEPT ![i] = 0]
    /\ admittedAt' = [admittedAt EXCEPT ![i] = 0]
    /\ UNCHANGED << elsewhere, clock, inputs, mainpc, idx, result, printed, sem,
                    mu, wg, aggregate, locals, failed, failedNames, indicated,
                    noVersion, maxConcurrent >>

\* Lines 103, 97 (deferred): cancel(); <-sem
Release(i) ==
    /\ pc[i] = "release"
    /\ sem' = sem - 1
    /\ pc' = [pc EXCEPT ![i] = "wgdone"]
    /\ nInd' = [nInd EXCEPT ![i] = 0]
    /\ deadline' = [deadline EXCEPT ![i] = 0]
    /\ admittedAt' = [admittedAt EXCEPT ![i] = 0]
    /\ UNCHANGED << elsewhere, clock, inputs, mainpc, idx, result, printed, mu, wg, aggregate,
                    locals, failed, failedNames, indicated, noVersion,
                    maxConcurrent >>

\* Line 95 (deferred): wg.Done()
WgDone(i) ==
    /\ pc[i] = "wgdone"
    /\ wg' = wg - 1
    /\ pc' = [pc EXCEPT ![i] = "exit"]
    /\ UNCHANGED << elsewhere, clock, ctxs, inputs, mainpc, idx, result, printed, sem, mu, aggregate,
                    locals, history, maxConcurrent >>

Next ==
    \/ Start
    \/ Spawn
    \/ Wait
    \/ Summary
    \/ \E i \in Tasks : Acquire(i)
    \/ \E i \in Tasks : \E inv \in Inventories : QueryOk(i, inv)
    \/ \E i \in Tasks : QueryErr(i)
    \/ \E i \in Tasks : LockE(i)
    \/ \E i \in Tasks : WriteE(i)
    \/ \E i \in Tasks : LockV(i)
    \/ \E i \in Tasks : ReadV(i)
    \/ \E i \in Tasks : StoreV(i)
    \/ \E i \in Tasks : Add(i)
    \/ \E i \in Tasks : Release(i)
    \/ \E i \in Tasks : WgDone(i)

\* Time passes.
Tick ==
    /\ mainpc \in {"spawn", "wait"}
    /\ now < MaxTime
    /\ now' = now + 1
    /\ UNCHANGED << elsewhere, inputs, parentDone, ctxs, mainpc, idx, result,
                    printed, sem, mu, wg, aggregate, pc, locals, history,
                    maxConcurrent >>

\* The parent context cmd.Context() is cancelled (the process is told to stop).
CancelParent ==
    /\ mainpc \in {"spawn", "wait"}
    /\ ~parentDone
    /\ parentDone' = TRUE
    /\ UNCHANGED << elsewhere, inputs, now, ctxs, mainpc, idx, result,
                    printed, sem, mu, wg, aggregate, pc, locals, history,
                    maxConcurrent >>

NextCtx ==
    \/ Next
    \/ Tick
    \/ CancelParent

\* The gate under every batch size.
SpecGate == InitGate /\ [][Next]_vars

\* The dispatch with deadlines and cancellation.
SpecCtx == InitCtx /\ [][NextCtx]_vars

\* The aggregate under every answer of the BMCs.
Spec == InitAgg /\ [][Next]_vars

\* Serial and parallel batches of hosts whose BMCs answer or fail.
InitLive ==
    InitWith({DistinctHosts(n) : n \in 0..AggHosts}, {0, 1, 2},
             {1}, {Fleet({Updating}, TRUE)}, {1})

\* The steps of goroutine i.  A query returns: with an answer, or an error.
Task(i) ==
    \/ Acquire(i)
    \/ \E inv \in Inventories : QueryOk(i, inv)
    \/ QueryErr(i)
    \/ LockE(i)
    \/ WriteE(i)
    \/ LockV(i)
    \/ ReadV(i)
    \/ StoreV(i)
    \/ Add(i)
    \/ Release(i)
    \/ WgDone(i)

\* The Go scheduler: RunE, and every goroutine, runs when it can.
Fairness ==
    /\ WF_vars(Start \/ Spawn \/ Wait \/ Summary)
    /\ \A i \in Tasks : WF_vars(Task(i))

\* The dispatch under a fair scheduler.
SpecLive == InitLive /\ [][Next]_vars /\ Fairness

\* ------------------------------------------------------------ the pool
\* A pool alone: a subnet, no dispatch and no inventory.
NoDispatch ==
    /\ fwTimeout = 0
    /\ hosts = << >>
    /\ fwBatchSize = 1
    /\ nTargets = 1
    /\ fleet = Fleet({Healthy}, FALSE)
    /\ DispatchStart

DispatchIdle ==
    /\ user = "root"
    /\ pass = "secret"
    /\ NoDispatch

InitIpam ==
    /\ cidr \in Cidrs \cup {BadCidr}
    /\ PoolStart
    /\ DispatchIdle
    /\ DiscoveryStart
    /\ ClassifierStart
    /\ bmcs = << >>
    /\ nics = << >>
    /\ nodes = << >>

dispatch == << inputs, clock, ctxs, mainpc, idx, result, printed, sem, mu, wg,
               aggregate, pc, locals, history, maxConcurrent >>

\* The addresses a caller passes to reserve: those of the prefix and the ones
\* next to it; main() passes only text that net.ParseIP accepts, never "".
ReserveArgs(c) == Max(0, Network(c) - 1)..(Broadcast(c) + 1)

\* alloc, err := newAllocator(*subnet)
CallNewAllocator ==
    /\ alloc = "none"
    /\ LET r == newAllocator(cidr)
       IN  /\ alloc' = IF r.err THEN "error" ELSE "ok"
           /\ ips' = r.ips
           /\ atCreate' = r.ips
    /\ UNCHANGED << cidr, handed, passed, nextErrs, reserveErrs, discovery,
                    classifier, dispatch >>

\* alloc.reserve(ip)
CallReserve(ip) ==
    /\ alloc = "ok"
    /\ ip \in passed \/ Cardinality(passed) < MaxReserves
    /\ LET r == reserve(cidr, ips, ip)
       IN  /\ ips' = r.ips
           /\ reserveErrs' = IF r.err THEN Min(MaxErrs, reserveErrs + 1)
                              ELSE reserveErrs
    /\ passed' = passed \cup {ip}
    /\ UNCHANGED << cidr, alloc, handed, atCreate, nextErrs, discovery,
                    classifier, dispatch >>

\* ipStr, err = alloc.next()
CallNext ==
    /\ alloc = "ok"
    /\ Len(handed) <= SizeOf(cidr)
    /\ LET r == next(cidr, ips)
       IN  /\ ips' = r.ips
           /\ IF r.err
              THEN /\ nextErrs < MaxErrs
                   /\ nextErrs' = nextErrs + 1
                   /\ handed' = handed
              ELSE /\ nextErrs' = nextErrs
                   /\ handed' = Append(handed, r.ip)
    /\ UNCHANGED << cidr, alloc, passed, atCreate, reserveErrs, discovery,
                    classifier, dispatch >>

NextIpam ==
    \/ CallNewAllocator
    \/ \E ip \in ReserveArgs(cidr) : CallReserve(ip)
    \/ CallNext

\* Every order of reserve and next on one pool.
SpecIpam == InitIpam /\ [][NextIpam]_vars

\* ------------------------------------------------------------ discovery
\* main(): the inventory file holds the controllers (bmcs, told apart by their
\* xnames 1, 2, ...) and the node records of earlier runs; a node record is
\* [xname, mac, ip], with ip = NoAddr when net.ParseIP rejects its text.
Entry(x, m, ip) == [xname |-> x, mac |-> m, ip |-> ip]

\* xname of the node of controller b; distinct controllers name distinct nodes.
bmcXnameToNode(b) == << b, 0 >>

\* fmt.Sprintf("%s-pxe%d", nodeX, idx+1), for a controller with several NICs
PxeName(nodeX, k) == << nodeX[1], k >>

Digits == << "0", "1", "2", "3", "4", "5" >>
MacOf(b, k) == << "A", "C", ":", Digits[b + 1], Digits[k + 1] >>

\* The interfaces of controller b: one that boots (a MAC, enabled), one with
\* a MAC that is switched off and has no hint, one whose path says PXE but
\* that reports no MAC.
Plain(b, k) == Nic(MacOf(b, k), << >>, << >>, "true")
Off(b, k) == Nic(MacOf(b, k), << >>, << >>, "false")
NoMac == Nic(<< >>, <<"P","X","E">>, << >>, "true")

\* What a controller answers: err names the call that failed ("" for none),
\* nics are the interfaces fetched (before the failure, if any).
NicError(call, fetched) == [err |-> call, nics |-> fetched]
NicList(list) == [err |-> "", nics |-> list]

\* Every controller can have one interface that boots, or two that are
\* switched off behind one without a MAC.  The first can also fail while its
\* interfaces are fetched, have no interface with a MAC, two that boot, or
\* one that boots behind one that is switched off; the others can fail when
\* asked for their systems.
Answers(b) ==
    { NicList(<< Plain(b, 1) >>),
      NicList(<< NoMac, Off(b, 2), Off(b, 3) >>) }
    \cup (IF b > 1
          THEN { NicError("systems", << >>) }
          ELSE { NicError("ethernet", << Plain(b, 1) >>),
                 NicList(<< NoMac >>),
                 NicList(<< Plain(b, 1), Plain(b, 2) >>),
                 NicList(<< Off(b, 1), Plain(b, 2) >>) })

\* The subnets of the discovery runs: 10.42.0.0/29 and 10.42.0.0/30.
DiscSubnets == {CidrOf(TRUE, 0, 3), Scenario30}

\* The addresses of existing records: none that parses, two of the subnet,
\* one outside it.
RecordIPs == {NoAddr, 2, 3, 9}

\* The nodes existing records can name: the node of each controller, a second
\* NIC of the first, and a node whose controller is gone.
RecordNames ==
    {bmcXnameToNode(b) : b \in 0..MaxBmcs} \cup {PxeName(bmcXnameToNode(1), 1)}
Rank(x) == (x[1] * 3) + x[2]

\* Node lists with one record per xname, listed by xname.
NodeLists ==
    UNION { { q \in [1..n -> {Entry(x, << >>, ip) : x \in RecordNames, ip \in RecordIPs}] :
                \A i \in 1..(n - 1) : Rank(q[i].xname) < Rank(q[i + 1].xname) } :
            n \in 0..MaxNodes }

\* utils.go findByXname: index of the first record with that xname, 0 for nil.
findByXname(list, x) ==
    IF \E i \in 1..Len(list) : list[i].xname = x
    THEN Lowest({i \in 1..Len(list) : list[i].xname = x})
    ELSE 0

\* net.ParseIP(s) != nil
ParseIP(ip) == ip /= NoAddr

\* Slip: the addresses of the existing records are not reserved first.
PreReserved_Skip(c, acquired, n) == acquired

\* Lines 108-112: `if ip := net.ParseIP(n.IP); ip != nil { alloc.reserve(ip.String()) }`
PreReserved(c, acquired, n) ==
    IF ParseIP(n.ip) THEN reserve(c, acquired, n.ip).ips ELSE acquired

\* Slip: the address of an existing record is never reused.
Reuses_Never(list, x) == FALSE

\* Lines 170-172: `existing != nil && net.ParseIP(existing.IP) != nil`
Reuses(list, x) ==
    findByXname(list, x) /= 0 /\ ParseIP(list[findByXname(list, x)].ip)

\* Lines 164-167: the xname of the k-th of the bootable NICs of controller b
NodeX(b, k, bootable) ==
    IF Len(bootable) > 1 THEN PxeName(bmcXnameToNode(b), k) ELSE bmcXnameToNode(b)

\* A configuration main() dies on before it sets the pool up (lines 80-101).
BadConfig == cidr.text = "" \/ user = "" \/ pass = "" \/ Len(bmcs) = 0

\* The inventories and answers of the discovery runs, and a few runs that
\* main() refuses.
InitDisc ==
    /\ \/ /\ user = "root" /\ pass = "secret"
          /\ cidr \in DiscSubnets
          /\ \E n \in 1..MaxBmcs :
                /\ bmcs = [b \in 1..n |-> b]
                /\ nics \in [1..n -> UNION {Answers(b) : b \in 1..n}]
                /\ \A b \in 1..n : nics[b] \in Answers(b)
          /\ nodes \in NodeLists
       \/ /\ user \in {"", "root"} /\ pass \in {"", "secret"}
          /\ cidr \in {NoCidr, BadCidr, Scenario30}
          /\ bmcs \in {<< >>, << 1 >>}
          /\ nics = [b \in 1..Len(bmcs) |-> NicList(<< Plain(b, 1) >>)]
          /\ nodes = << >>
          /\ BadConfig \/ cidr = BadCidr
    /\ PoolStart
    /\ NoDispatch
    /\ DiscoveryStart
    /\ ClassifierStart

\* Lines 126-160: the WARN line a controller's answer gets ("" for none): a
\* failed call, or no interface to boot from.
Warning(a) ==
    IF a.err /= "" THEN a.err
    ELSE IF Len(Bootable(a.nics)) = 0 THEN "no NICs discovered"
    ELSE ""

\* Slip: the run goes on to the next interface when the pool has run dry.
NextFailed_Skip(onward) == onward

\* Lines 178-180: die("ipam allocate for ..."), whatever was to come.
NextFailed(onward) == "died"

\* Slip: the records of the nodes not seen in this run are kept.
Written_Merge(old, new) ==
    new \o SelectSeq(old, LAMBDA e : findByXname(new, e.xname) = 0)

\* Line 192: `doc.Nodes = out`
Written(old, new) == new

\* Where main() goes when the pre-reserve loop is over, and when the NICs of a
\* controller are done.
AfterLastNic == IF bi >= Len(bmcs) THEN "write" ELSE "bmc"

\* Lines 80-107: the checks, then newAllocator.
DStart ==
    /\ dpc = "start"
    /\ IF BadConfig \/ newAllocator(cidr).err
       THEN /\ dpc' = "died"
            /\ UNCHANGED << alloc, ips, atCreate >>
       ELSE /\ dpc' = IF Len(nodes) = 0 THEN "bmc" ELSE "prereserve"
            /\ alloc' = "ok"
            /\ ips' = newAllocator(cidr).ips
            /\ atCreate' = newAllocator(cidr).ips
    /\ UNCHANGED << cidr, handed, passed, nextErrs, reserveErrs, bmcs, nics,
                    nodes, out, bi, ni, run, warned, classifier, dispatch >>

\* Lines 108-112: one round of `for _, n := range doc.Nodes`
DPreReserve ==
    /\ dpc = "prereserve"
    /\ ips' = PreReserved(cidr, ips, nodes[ni])
    /\ passed' = IF ParseIP(nodes[ni].ip) THEN passed \cup {nodes[ni].ip}
                 ELSE passed
    /\ IF ni >= Len(nodes)
       THEN dpc' = "bmc" /\ ni' = 1
       ELSE dpc' = dpc /\ ni' = ni + 1
    /\ UNCHANGED << cidr, alloc, handed, atCreate, nextErrs, reserveErrs, bmcs,
                    nics, nodes, out, bi, run, warned, classifier, dispatch >>

\* Lines 117-160: the controller is asked for its NICs; an error, or no
\* bootable NIC, is a warning and the next controller's turn.
DBmc ==
    /\ dpc = "bmc"
    /\ IF Warning(nics[bi]) /= ""
       THEN /\ warned' = Append(warned, << bmcs[bi], Warning(nics[bi]) >>)
            /\ dpc' = AfterLastNic
            /\ bi' = IF bi >= Len(bmcs) THEN bi ELSE bi + 1
       ELSE /\ warned' = warned
            /\ dpc' = "nic"
            /\ bi' = bi
    /\ ni' = 1
    /\ UNCHANGED << pool, poolHistory, bmcs, nics, nodes, out, run, classifier,
                    dispatch >>

\* Lines 163-188: one round of `for idx, nic := range bootable`: the address
\* of the existing record of that xname, or the next one of the pool.
DNic ==
    /\ dpc = "nic"
    /\ LET bootable == Bootable(nics[bi].nics)
           nodeX == NodeX(bmcs[bi], ni, bootable)
           mac == ToLower(bootable[ni].MACAddress)
           last == ni >= Len(bootable)
           onward == IF last THEN AfterLastNic ELSE dpc
           done == /\ ni' = IF last THEN 1 ELSE ni + 1
                   /\ bi' = IF last /\ bi < Len(bmcs) THEN bi + 1 ELSE bi
                   /\ dpc' = onward
       IN  IF Reuses(nodes, nodeX)
           THEN LET ipStr == nodes[findByXname(nodes, nodeX)].ip
                IN  /\ ips' = reserve(cidr, ips, ipStr).ips
                    /\ passed' = passed \cup {ipStr}
                    /\ out' = Append(out, Entry(nodeX, mac, ipStr))
                    /\ done
                    /\ UNCHANGED << handed, nextErrs >>
           ELSE LET r == next(cidr, ips)
                IN  /\ ips' = r.ips
                    /\ passed' = passed
                    /\ IF r.err
                       THEN /\ nextErrs' = nextErrs + 1
                            /\ UNCHANGED << handed, out >>
                            /\ IF NextFailed(onward) = "died"
                               THEN dpc' = "died" /\ UNCHANGED << ni, bi >>
                               ELSE done
                       ELSE /\ handed' = Append(handed, r.ip)
                            /\ out' = Append(out, Entry(nodeX, mac, r.ip))
                            /\ nextErrs' = nextErrs
                            /\ done
    /\ UNCHANGED << cidr, alloc, atCreate, reserveErrs, bmcs, nics, nodes, run,
                    warned, classifier, dispatch >>

\* Lines 192-200: doc.Nodes = out, and the file is written.
DWrite ==
    /\ dpc = "write"
    /\ nodes' = Written(nodes, out)
    /\ dpc' = "done"
    /\ UNCHANGED << pool, poolHistory, bmcs, nics, out, bi, ni, run, warned,
                    classifier, dispatch >>

\* The tool is run again on the file it wrote, against the same controllers.
DRerun ==
    /\ dpc = "done"
    /\ run < 2
    /\ run' = run + 1
    /\ dpc' = "start"
    /\ out' = << >>
    /\ bi' = 1
    /\ ni' = 1
    /\ alloc' = "none"
    /\ ips' = {}
    /\ handed' = << >>
    /\ passed' = {}
    /\ atCreate' = {}
    /\ warned' = << >>
    /\ UNCHANGED << cidr, nextErrs, reserveErrs, bmcs, nics, nodes, classifier,
                    dispatch >>

NextDisc ==
    \/ DStart
    \/ DPreReserve
    \/ DBmc
    \/ DNic
    \/ DWrite
    \/ DRerun

\* Discovery, run once or twice over an inventory.
SpecDisc == InitDisc /\ [][NextDisc]_vars

\* ------------------------------------------------------- the classifier
\* The interface records handed to isBootable: device paths with a hint in
\* upper, lower or mixed case, at the start or inside, and without one;
\* address lists with and without a DHCP origin; with and without a MAC;
\* enabled, disabled, or not saying.
BootPaths ==
    { << >>,
      <<"P","X","E">>,
      <<"n","o","p","x","e","!">>,
      <<"I","P","v","4">>,
      <<"I","P","v","6">>,
      <<"M","a","c","(","0",")">>,
      <<"M","A","C">>,
      <<"U","S","B">>,
      <<"i","p","v","5">> }
BootOrigins ==
    { << >>,
      << <<"D","H","C","P">> >>,
      << <<"S","t","a","t","i","c">> >>,
      << <<"S","t","a","t","i","c">>, <<"d","h","c","p">> >>,
      << <<"D","H","C","P","v","6">> >>,
      << <<"D","h","c","p">> >> }
BootNics ==
    { Nic(m, u, o, e) : m \in {<< >>, MacOf(1, 1)}, u \in BootPaths,
                        o \in BootOrigins, e \in {"nil", "true", "false"} }

InitBoot ==
    /\ nic \in BootNics
    /\ verdict = ""
    /\ cidr = NoCidr
    /\ PoolStart
    /\ DispatchIdle
    /\ DiscoveryStart
    /\ bmcs = << >>
    /\ nics = << >>
    /\ nodes = << >>

\* isBootable(nic)
Classify ==
    /\ verdict = ""
    /\ verdict' = IF isBootable(nic) THEN "bootable" ELSE "other"
    /\ UNCHANGED << nic, pool, poolHistory, discovery, dispatch >>

NextBoot == Classify

\* isBootable on one interface record.
SpecBoot == InitBoot /\ [][NextBoot]_vars

\* ================================================================== claims
ValidRun == user /= "" /\ pass /= "" /\ NumHosts > 0
Returned == mainpc = "returned" /\ result = "nil"
Waiting == {i \in Tasks : pc[i] = "sem"}

\* C1: at every moment of a dispatch the number of host operations that hold
\* a token of the admission gate is at most max(1, batchSize).
C1_GateBound ==
    /\ Cardinality(InFlight) <= Max(1, fwBatchSize)
    /\ sem = Cardinality(InFlight)

\* C1 witness: the gate is full with several holders while another host waits.
C1_Witness ==
    /\ fwBatchSize >= 2
    /\ Cardinality(InFlight) = fwBatchSize
    /\ Waiting /= {}

\* C2: with batchSize <= 1 (0 and negative included) and a non-empty host list
\* never more than one operation is in flight, and when the dispatch returns
\* the peak was exactly 1.
C2_SerialPeak ==
    (fwBatchSize <= 1 /\ ValidRun) =>
        /\ Cardinality(InFlight) <= 1
        /\ maxConcurrent <= 1
        /\ (Returned => maxConcurrent = 1)

\* C2 witness: a dispatch of several hosts with a batch size below 1 returned.
C2_Witness ==
    /\ fwBatchSize < 1
    /\ NumHosts >= 2
    /\ Returned
    /\ maxConcurrent = 1

\* C3: with batchSize = k >= 2 and n >= k hosts, never more than k operations
\* are in flight, and a waiting host is admitted whenever fewer than k are in
\* flight, so k operations are in flight at once if none completes early.
C3_ParallelPeak ==
    (fwBatchSize >= 2 /\ NumHosts >= fwBatchSize) =>
        /\ Cardinality(InFlight) <= fwBatchSize
        /\ maxConcurrent <= fwBatchSize
        /\ \A i \in Waiting :
              Cardinality(InFlight) < fwBatchSize => ENABLED Acquire(i)

\* C3 witness: exactly k >= 2 operations in flight, more hosts than k.
C3_Witness ==
    /\ fwBatchSize >= 2
    /\ NumHosts > fwBatchSize
    /\ Cardinality(InFlight) = fwBatchSize
    /\ maxConcurrent = fwBatchSize

\* C4: with batchSize greater than the number of hosts n, never more than n
\* operations are in flight and no host ever blocks on the gate.
C4_FullParallel ==
    (fwBatchSize > NumHosts) =>
        /\ Cardinality(InFlight) <= NumHosts
        /\ maxConcurrent <= NumHosts
        /\ \A i \in Waiting : ENABLED Acquire(i)

\* C4 witness: all n >= 2 hosts in flight at once under a larger batch size.
C4_Witness ==
    /\ fwBatchSize > NumHosts
    /\ NumHosts >= 2
    /\ Cardinality(InFlight) = NumHosts

\* C5: the summary is read only after every host goroutine has finished, and
\* what was printed is the final aggregate.
C5_ReadAfterJoin ==
    (mainpc = "summary" \/ printed /= << >>) =>
        /\ \A i \in 1..NumHosts : pc[i] = "exit"
        /\ \A k \in 1..Len(printed) :
              /\ printed[k].versions = versionCounts
              /\ printed[k].inProgress = inProgress
              /\ printed[k].errors = errorsList
              /\ printed[k].total = NumHosts

\* C5 witness: a summary of several hosts, some failed, was printed.
C5_Witness ==
    /\ printed /= << >>
    /\ NumHosts >= 2
    /\ fwBatchSize = 1
    /\ DOMAIN errorsList /= {}
    /\ DOMAIN versionCounts /= {}

Counted == {i \in Tasks : pc[i] \in {"add", "release", "wgdone", "exit"}}
DistinctList == \A i, j \in 1..NumHosts : hosts[i] = hosts[j] => i = j

\* C6: a failing query never aborts the run: the call never returns an error
\* once dispatch has begun, every host is processed, every failure is in the
\* error map, and the summary is printed.
C6_ErrorsIsolated ==
    ValidRun =>
        /\ result \in {"none", "nil"}
        /\ mainpc = "returned" =>
              /\ result = "nil"
              /\ Len(printed) = 1
              /\ \A i \in 1..NumHosts : pc[i] = "exit"
              /\ failedNames \subseteq DOMAIN printed[1].errors
              /\ MapSum(printed[1].versions) = NumHosts

\* C6 witness: every host's only query failed, and the call returned nil.
C6_Witness ==
    /\ Returned
    /\ NumHosts >= 2
    /\ nTargets = 1
    /\ DistinctList
    /\ Cardinality(DOMAIN errorsList) = NumHosts
    /\ Len(printed) = 1

\* C7 as stated: the error map has f entries and the counts sum to n - f.
C7_Original ==
    Returned =>
        /\ Cardinality(DOMAIN errorsList) = Cardinality(failedNames)
        /\ MapSum(versionCounts) = NumHosts - Cardinality(failedNames)

\* C7 (amended): the error map has exactly one entry per host that had a
\* failing query, the counts sum to n (not n - f), the hosts that got no version
\* are the ones counted under "(unknown)", and with a single target every
\* failed host is among them: failed hosts are in the error map and the counts.
C7_Amended ==
    Returned =>
        /\ DOMAIN errorsList = failedNames
        /\ MapSum(versionCounts) = NumHosts
        /\ MapGet(versionCounts, UNKNOWN) = noVersion
        /\ nTargets = 1 =>
              MapGet(versionCounts, UNKNOWN) >= Cardinality(failedNames)

\* C7 witness: of several distinct hosts one failed and the others succeeded.
C7_Witness ==
    /\ Returned
    /\ NumHosts = AggHosts
    /\ DistinctList
    /\ nTargets = 1
    /\ Cardinality(DOMAIN errorsList) = 1
    /\ MapGet(versionCounts, UNKNOWN) = 1
    /\ MapSum(versionCounts) = NumHosts

\* C8: each host contributes to the version counts exactly once, under every
\* interleaving: the counts sum to the number of hosts that have passed the
\* counting statement, to the number of hosts at the end, and the hosts that
\* got no version from any target are the ones under "(unknown)".
C8_OneContribution ==
    /\ MapSum(versionCounts) = Cardinality(Counted)
    /\ DOMAIN versionCounts \subseteq {UNKNOWN, "v1", "v2"}
    /\ Returned =>
          /\ MapSum(versionCounts) = NumHosts
          /\ MapGet(versionCounts, UNKNOWN) = noVersion

\* C8 witness: two hosts counted, one under "(unknown)" after a failure.
C8_Witness ==
    /\ Returned
    /\ NumHosts = 2
    /\ failedNames /= {}
    /\ MapGet(versionCounts, UNKNOWN) = 1
    /\ MapGet(versionCounts, "v1") = 1

\* C9: the in-progress counter is bumped at most once per host however many
\* indications the host gave: it never exceeds the number of hosts that gave
\* one, and equals it when the dispatch returns.
C9_OncePerHost ==
    /\ inProgress <= indicated
    /\ indicated <= NumHosts
    /\ inProgress = indicated - Cardinality(
          {i \in Tasks : pc[i] \in HoldingPcs \ {"release"} /\ nInd[i] > 0})
    /\ Returned => inProgress = indicated

\* C9 witness: a host with several indications has bumped the counter to 1.
C9_Witness ==
    \E i \in Tasks :
        /\ pc[i] = "release"
        /\ nInd[i] = 2
        /\ inProgress = 1
        /\ indicated = 1

\* C10: an entry of the error map belongs to the host it is filed under, a
\* host has an entry only if one of its queries failed and surely has one at
\* the end, each failure written replaces that host's entry alone, and
\* nothing else touches the map.
C10_Entries ==
    /\ DOMAIN errorsList \subseteq failedNames
    /\ \A k \in DOMAIN errorsList :
          errorsList[k][1] = k /\ errorsList[k][2] \in 1..nTargets
    /\ Returned => DOMAIN errorsList = failedNames

C10_Write(i) ==
    /\ pc[i] = "writeE"
    /\ pc'[i] /= "writeE"

C10_Step ==
    /\ \A i \in Tasks : C10_Write(i) =>
          /\ hosts[i] \in DOMAIN errorsList'
          /\ errorsList'[hosts[i]] = ErrorOf(hosts[i], failed[i])
          /\ \A k \in DOMAIN errorsList' :
                k /= hosts[i] => k \in DOMAIN errorsList /\ errorsList'[k] = errorsList[k]
    /\ (\A i \in Tasks : ~C10_Write(i)) => errorsList' = errorsList

C10_ErrorMap == []C10_Entries /\ [][C10_Step]_vars

\* C10 witness: a host whose first target failed has its entry, beside the
\* entry of another host, and is about to overwrite it with its second failure.
C10_Witness ==
    \E i, j \in 1..NumHosts :
        /\ hosts[i] /= hosts[j]
        /\ hosts[j] \in DOMAIN errorsList
        /\ pc[i] = "writeE"
        /\ tgt[i] = 2
        /\ hosts[i] \in DOMAIN errorsList
        /\ errorsList[hosts[i]] = ErrorOf(hosts[i], 1)

ConfigError == user = "" \/ pass = "" \/ NumHosts = 0

\* C11: with an empty credential or an empty host list the run fails with an
\* error before anything starts: no host goroutine is spawned, no token taken,
\* no query issued, and no aggregate is filled or printed.
C11_FailFast ==
    ConfigError =>
        /\ mainpc \in {"start", "returned"}
        /\ mainpc = "returned" =>
              result \in {"error: credentials required", "error: no hosts to query"}
        /\ \A i \in Tasks : pc[i] = "idle"
        /\ sem = 0 /\ wg = 0 /\ mu = NoTask
        /\ maxConcurrent = 0
        /\ failedNames = {} /\ indicated = 0 /\ noVersion = 0
        /\ versionCounts = EmptyMap /\ errorsList = EmptyMap /\ inProgress = 0
        /\ printed = << >>

\* C11 witness: a run over several hosts, without the password, has failed.
C11_Witness ==
    /\ user /= "" /\ pass = ""
    /\ NumHosts >= 2
    /\ mainpc = "returned"
    /\ result = "error: credentials required"

\* The context of goroutine i is done by what the claim allows: the parent was
\* cancelled, or a timeout is set and has run out since i passed the gate.
C12_Expired(i) ==
    parentDone \/ (fwTimeout > 0 /\ now - admittedAt[i] >= fwTimeout)

\* C12: the context of every operation in flight derives from the parent: with
\* a timeout > 0 its deadline is the timeout counted from the admission through
\* the gate, without one it has no deadline; it is done exactly when the parent
\* is cancelled or its own deadline has passed, whatever the deadlines of the
\* other hosts, and its query can succeed exactly while it is not done.
C12_Contexts ==
    \A i \in InFlight :
        /\ fwTimeout > 0 => deadline[i] = admittedAt[i] + fwTimeout
        /\ CtxDone(i) <=> C12_Expired(i)
        /\ parentDone => CtxDone(i)
        /\ fwTimeout <= 0 => (CtxDone(i) <=> parentDone)
        /\ pc[i] = "query" => ((ENABLED QueryOk(i, Updating)) <=> ~C12_Expired(i))

\* C12 witness: a host that waited for the gate longer than the timeout is in
\* flight with a live context, while the host before it has timed out.
C12_Witness ==
    \E i, j \in 1..NumHosts :
        /\ i /= j
        /\ fwTimeout > 0
        /\ fwBatchSize = 1
        /\ pc[i] = "query"
        /\ admittedAt[i] >= fwTimeout
        /\ ~CtxDone(i)
        /\ hosts[j] \in failedNames
        /\ pc[j] = "exit"

\* ------------------------------------------------------------- the pool
Handed == {handed[k] : k \in 1..Len(handed)}
LastHanded == handed'[Len(handed')]
NoRepeats(q) == \A i, j \in 1..Len(q) : q[i] = q[j] => i = j

\* C13, in every state: the addresses next() returned are addresses of the
\* prefix, acquired, and pairwise different.
C13_Returned ==
    /\ NoRepeats(handed)
    /\ Handed \subseteq PrefixAddrs(cidr)
    /\ Handed \subseteq ips

\* C13, in every step: a call of next() that succeeds returns an address that
\* was not acquired, with every lower address of the prefix acquired, and marks
\* it in that step; a call fails only when no address is left and returns none,
\* and no call succeeds then.
C13_Step ==
    /\ handed' /= handed =>
          /\ Len(handed') = Len(handed) + 1
          /\ \A k \in 1..Len(handed) : handed'[k] = handed[k]
          /\ LastHanded \in PrefixAddrs(cidr) \ ips
          /\ \A a \in PrefixAddrs(cidr) : a < LastHanded => a \in ips
          /\ ips' = ips \cup {LastHanded}
          /\ nextErrs' = nextErrs
    /\ nextErrs' /= nextErrs =>
          /\ PrefixAddrs(cidr) \subseteq ips
          /\ handed' = handed
          /\ ips' = ips
    /\ PrefixAddrs(cidr) \subseteq ips => handed' = handed

\* C13: next() returns the lowest address that is not acquired and acquires it
\* in the same step, so no two calls return the same address; it fails, with
\* no address, exactly when none is left.
C13_NextLowest == []C13_Returned /\ [][C13_Step]_vars

\* C13 witness: two calls succeeded around a reserved address, a later one
\* failed.
C13_Witness ==
    /\ cidr.v4
    /\ Len(handed) >= 2
    /\ nextErrs >= 1
    /\ \E a \in passed : handed[1] < a /\ a < handed[2]

\* The three addresses the claim names; IPv6 has no broadcast address.
C14_Three(c) ==
    ({Network(c)} \cup (IF c.v4 THEN {Broadcast(c)} ELSE {}) \cup {Network(c) + 1})
        \cap PrefixAddrs(c)

\* C14 as stated: for every valid CIDR, once the pool is created the network
\* address, the broadcast address and the network address plus one are
\* acquired, and next() never returns one of them.
C14_Original ==
    alloc = "ok" =>
        /\ C14_Three(cidr) \subseteq ips
        /\ Handed \cap C14_Three(cidr) = {}

\* C15: a step in which next() returns an address never returns one that was
\* passed to reserve() before.
C15_Step == handed' /= handed => LastHanded \notin passed

\* C15: once reserve(A) was called, no later next() returns A.
C15_Precedence == [][C15_Step]_vars

\* C15 witness: an address that only reserve() acquired was passed over by a
\* later next().
C15_Witness ==
    \E a \in passed \cap PrefixAddrs(cidr) :
        /\ a \notin atCreate
        /\ a \notin Handed
        /\ \E k \in 1..Len(handed) : handed[k] > a

\* C16: reserve never reports an error; on an address that is acquired already
\* or outside the prefix it leaves the acquired set as it is; it never removes
\* an address; a second reserve of the same address changes nothing.
C16_Idempotent ==
    /\ reserveErrs = 0
    /\ alloc = "ok" =>
          \A a \in ReserveArgs(cidr) :
              LET once == reserve(cidr, ips, a)
                  twice == reserve(cidr, once.ips, a)
              IN  /\ ~once.err /\ ~twice.err
                  /\ (a \in ips \/ a \notin PrefixAddrs(cidr)) => once.ips = ips
                  /\ (a \notin ips /\ a \in PrefixAddrs(cidr)) => once.ips = ips \cup {a}
                  /\ twice.ips = once.ips

\* C16 witness: an address outside the prefix and one acquired at creation
\* were passed to reserve, and the acquired set is what it was without them.
C16_Witness ==
    /\ alloc = "ok"
    /\ \E a \in passed : a \notin PrefixAddrs(cidr)
    /\ \E b \in passed : b \in atCreate
    /\ passed \cap PrefixAddrs(cidr) \subseteq atCreate
    /\ Handed /= {}
    /\ ips = atCreate \cup Handed

\* The usable addresses of the pool: those its creation left unacquired.
Usable == Free(cidr, atCreate)

C18_Acquired ==
    alloc = "ok" =>
        ips = atCreate \cup (passed \cap PrefixAddrs(cidr)) \cup Handed

\* C18: the acquired set only grows, and is always made of the addresses of
\* creation, of reserve() and of next().
C18_OnlyGrows == []C18_Acquired /\ [][ips \subseteq ips']_vars

\* C18 witness: all three kinds are in the acquired set, and an address
\* outside the prefix was passed to reserve.
C18_Witness ==
    /\ alloc = "ok"
    /\ \E a \in passed : a \in PrefixAddrs(cidr) /\ a \notin atCreate \cup Handed
    /\ \E a \in passed : a \notin PrefixAddrs(cidr)
    /\ Handed /= {}
    /\ atCreate /= {}

\* ------------------------------------------------------------ discovery
\* The addresses of the records of a node list that parse.
AddrsOf(list) == {list[k].ip : k \in {j \in 1..Len(list) : ParseIP(list[j].ip)}}
NoSharedAddr(list) ==
    \A i, j \in 1..Len(list) :
        (ParseIP(list[i].ip) /\ list[i].ip = list[j].ip) =>
            list[i].xname = list[j].xname

C20_Running == dpc \in {"prereserve", "bmc", "nic", "write"}

C21_Step ==
    nextErrs' > nextErrs =>
        /\ dpc' = "died"
        /\ nodes' = nodes /\ bmcs' = bmcs /\ out' = out
        /\ bi' = bi /\ ni' = ni

\* C21: when next() fails for a NIC the run dies at that NIC: it does not go
\* on to another NIC or controller and never writes; the file changes only in
\* the step that completes a run, so the controller list and the node list
\* are what they were before the run.
C21_Fatal ==
    /\ [](nextErrs > 0 => dpc = "died")
    /\ [](dpc = "died" => ~ENABLED NextDisc)
    /\ [][C21_Step]_vars
    /\ [][dpc' /= "done" => (nodes' = nodes /\ bmcs' = bmcs)]_vars

\* C21 witness: in 10.42.0.0/30 one node got the only address, the next NIC
\* found the pool empty, and the file had a node record.
C21_Witness ==
    /\ dpc = "died"
    /\ nextErrs = 1
    /\ Len(out) >= 1
    /\ Len(nodes) >= 1
    /\ Free(cidr, ips) = {}

\* The nodes and MACs of the interfaces discovered on the first n controllers,
\* in controller order: none for a controller that got a WARN line.
NamesOf(list) == [k \in 1..Len(list) |-> << list[k].xname, list[k].mac >>]
DiscoveredOn(b) ==
    IF Warning(nics[b]) /= "" THEN << >>
    ELSE [k \in 1..Len(Bootable(nics[b].nics)) |->
            << NodeX(bmcs[b], k, Bootable(nics[b].nics)),
               ToLower(Bootable(nics[b].nics)[k].MACAddress) >>]
RECURSIVE DiscoveredTo(_)
DiscoveredTo(n) ==
    IF n = 0 THEN << >> ELSE DiscoveredTo(n - 1) \o DiscoveredOn(n)

\* The step that writes the file: the node list becomes the records of this
\* run; a record of the old list whose node was not discovered is gone,
\* though its address, if it is one of the subnet, is still reserved.
C22_Step ==
    (dpc = "write" /\ dpc' = "done") =>
        /\ nodes' = out
        /\ \A k \in 1..Len(nodes) :
              findByXname(out, nodes[k].xname) = 0 =>
                  /\ findByXname(nodes', nodes[k].xname) = 0
                  /\ nodes[k].ip \in PrefixAddrs(cidr) => nodes[k].ip \in ips'

\* C22: a run never changes the controller list; when it completes, the node
\* list of the file is the list of records built in this run, one for each
\* NIC discovered, in controller order, and nothing of the old list is
\* carried over.
C22_Replaced ==
    /\ [](dpc \in {"write", "done"} =>
            NamesOf(out) = DiscoveredTo(Len(bmcs)))
    /\ [](dpc = "done" => nodes = out)
    /\ [][bmcs' = bmcs]_vars
    /\ [][C22_Step]_vars

\* C22 witness: a run is complete; a controller was skipped with a warning,
\* the file has the records of this run, and an address that was reserved
\* for a record of the old list is still taken but belongs to no record.
C22_Witness ==
    /\ run = 1
    /\ dpc = "done"
    /\ warned /= << >>
    /\ Len(nodes) >= 1
    /\ nodes = out
    /\ (passed \cap ips) \ AddrsOf(nodes) /= {}

\* Controller b gives no node: a call failed, or no interface has a MAC.
C23_Skipped(b) ==
    nics[b].err /= "" \/ \A k \in 1..Len(nics[b].nics) : ~HasMac(nics[b].nics[k])

\* Controller b has interfaces with a MAC, and isBootable accepts none of them.
C23_NoneBootable(b) ==
    /\ ~C23_Skipped(b)
    /\ \A k \in 1..Len(nics[b].nics) :
          HasMac(nics[b].nics[k]) => ~isBootable(nics[b].nics[k])

\* The records of this run for the nodes of controller b.
C23_RecordsOf(b) == {k \in 1..Len(out) : out[k].xname[1] = bmcs[b]}
C23_FirstMac(b) ==
    nics[b].nics[Lowest({k \in 1..Len(nics[b].nics) : HasMac(nics[b].nics[k])})].MACAddress

\* The step of a controller: one that gives no node gets a WARN line, adds no
\* record, takes nothing from the pool, and the run goes on with the next
\* controller (or to the end, after the last); any other gets no WARN line
\* and its interfaces are served.
C23_Step ==
    dpc = "bmc" =>
        IF C23_Skipped(bi)
        THEN /\ out' = out /\ ips' = ips /\ handed' = handed
             /\ nextErrs' = nextErrs
             /\ Len(warned') = Len(warned) + 1
             /\ warned'[Len(warned')][1] = bmcs[bi]
             /\ dpc' = IF bi < Len(bmcs) THEN "bmc" ELSE "write"
             /\ bi < Len(bmcs) => bi' = bi + 1
        ELSE /\ warned' = warned
             /\ dpc' = "nic"

\* C23: a controller whose query fails, or that has no interface with a MAC,
\* gets a warning, no record and no address, and the controllers after it
\* are still served; a controller with MACs but no interface that isBootable
\* accepts gets exactly one record, for its first interface with a MAC.
C23_Warned ==
    /\ [][C23_Step]_vars
    /\ [](\A k \in 1..Len(out) :
            \E b \in 1..Len(bmcs) : out[k].xname[1] = bmcs[b] /\ ~C23_Skipped(b))
    /\ [](dpc \in {"write", "done"} =>
            /\ {warned[k][1] : k \in 1..Len(warned)}
                  = {bmcs[b] : b \in {c \in 1..Len(bmcs) : C23_Skipped(c)}}
            /\ \A b \in 1..Len(bmcs) :
                  /\ C23_Skipped(b) <=> C23_RecordsOf(b) = {}
                  /\ C23_NoneBootable(b) =>
                        /\ Cardinality(C23_RecordsOf(b)) = 1
                        /\ \A k \in C23_RecordsOf(b) :
                              /\ out[k].xname = bmcXnameToNode(bmcs[b])
                              /\ out[k].mac = ToLower(C23_FirstMac(b)))

\* C23 witness: the first controller failed while its interfaces were
\* fetched, the second has two interfaces with a MAC, both switched off, and
\* the run ends with one warning and one record, for the first of the two.
C23_Witness ==
    /\ dpc = "write"
    /\ Len(bmcs) = 2
    /\ nics[1].err = "ethernet" /\ Len(nics[1].nics) > 0
    /\ C23_NoneBootable(2)
    /\ warned = << << 1, "ethernet" >> >>
    /\ Len(out) = 1
    /\ out[1].mac = ToLower(MacOf(2, 2))
    /\ out[1].ip \in Handed

\* ----------------------------------------------------------- the classifier
\* The device paths of BootPaths that hold pxe, ipv4, ipv6 or mac( in some
\* case, and the address lists of BootOrigins with an origin that is dhcp in
\* some case.
C24_Hinted ==
    { <<"P","X","E">>, <<"n","o","p","x","e","!">>, <<"I","P","v","4">>,
      <<"I","P","v","6">>, <<"M","a","c","(","0",")">> }
C24_Dhcp ==
    { << <<"D","H","C","P">> >>,
      << <<"S","t","a","t","i","c">>, <<"d","h","c","p">> >>,
      << <<"D","h","c","p">> >> }

\* C24: the first rule that matches decides: a path hint makes the
\* interface bootable whatever its MAC, addresses and enabled flag; without
\* a hint a DHCP address does; without either it is bootable iff it has a
\* MAC and is enabled or does not say.  So an interface with a Mac(...)
\* path, no address and the disabled flag is bootable.
C24_FirstMatch ==
    verdict /= "" =>
        /\ verdict \in {"bootable", "other"}
        /\ nic.UefiDevicePath \in C24_Hinted => verdict = "bootable"
        /\ (nic.UefiDevicePath \notin C24_Hinted /\ nic.Origins \in C24_Dhcp) =>
              verdict = "bootable"
        /\ (nic.UefiDevicePath \notin C24_Hinted /\ nic.Origins \notin C24_Dhcp) =>
              (verdict = "bootable" <=>
                  (nic.MACAddress /= << >> /\ nic.InterfaceEnabled /= "false"))

\* C24 witness: the interface with the path Mac(0), no address, no MAC and
\* the disabled flag has been classified, as bootable.
C24_Witness ==
    /\ verdict = "bootable"
    /\ nic = Nic(<< >>, <<"M","a","c","(","0",")">>, << >>, "false")

\* ------------------------------------------------------------- the mutex
\* The goroutines between mu.Lock() and mu.Unlock().
C25_Writers == {i \in Tasks : pc[i] \in {"writeE", "readV", "storeV"}}

\* A step that changes the aggregate: a map is changed by the goroutine that
\* holds the mutex, which it gives up with the write; a count goes up by one
\* on top of what every other goroutine has stored; the counter goes up by
\* one, in the one step of a goroutine at its atomic add.
C25_Step ==
    /\ (errorsList' /= errorsList \/ versionCounts' /= versionCounts) =>
          /\ mu \in C25_Writers
          /\ pc[mu] \in {"writeE", "storeV"}
          /\ pc'[mu] /= pc[mu]
          /\ mu' = NoTask
          /\ \A j \in Tasks \ {mu} : pc'[j] = pc[j]
    /\ versionCounts' /= versionCounts =>
          MapSum(versionCounts') = MapSum(versionCounts) + 1
    /\ inProgress' /= inProgress =>
          /\ inProgress' = inProgress + 1
          /\ \E i \in Tasks : pc[i] = "add" /\ pc'[i] = "release"

\* C25: at most one goroutine is between Lock and Unlock, it is the holder
\* of the mutex, and the mutex is held by nobody else; every change of the
\* maps is made by the holder and every change of the counter is one atomic
\* increment, so nothing stored is overwritten with a stale value.
C25_Synchronized ==
    /\ [](Cardinality(C25_Writers) <= 1)
    /\ [](\A i \in C25_Writers : mu = i)
    /\ [](mu /= NoTask => mu \in C25_Writers)
    /\ [][C25_Step]_vars

\* C25 witness: one goroutine is inside the count, holding the mutex, a
\* second waits for the mutex to file its error, a third is at its atomic
\* add (all three are past the gate).
C25_Witness ==
    \E i, j, k \in Tasks :
        /\ pc[i] = "storeV" /\ mu = i
        /\ pc[j] = "lockE"
        /\ pc[k] = "add"

\* ------------------------------------------------------------ the version
\* What the steps of the target loop do to the version of a host: an answer
\* gives the host its version only if it has none yet (at the last target,
\* "(unknown)" stands for none); a version once found is kept by every later
\* answer and failure; an answer changes neither map, a failure changes only
\* the error map; and the count that goes up is the count of that version.
C26_Step ==
    \A i \in Tasks :
        /\ \A inv \in Inventories :
              QueryOk(i, inv) =>
                  /\ ver'[i] = IF ver[i] /= "" THEN ver[i]
                                ELSE IF inv.Version /= "" THEN inv.Version
                                ELSE IF tgt[i] >= nTargets THEN UNKNOWN
                                ELSE ""
                  /\ versionCounts' = versionCounts
                  /\ errorsList' = errorsList
                  /\ inProgress' = inProgress
        /\ (pc[i] \in {"query", "lockE", "writeE"} /\ ver[i] /= "") =>
              /\ ver'[i] = ver[i]
              /\ << pc'[i], tgt'[i] >> /= << pc[i], tgt[i] >> =>
                    versionCounts' = versionCounts
        /\ (pc[i] = "storeV" /\ pc'[i] /= "storeV") =>
              /\ ver[i] /= ""
              /\ versionCounts' =
                    MapPut(versionCounts, ver[i], MapGet(versionCounts, ver[i]) + 1)

\* C26: the version a host is counted under is the first one found: that of
\* the first target, in target order, that answered with a version; targets
\* after it never replace it, they can only raise the in-progress flag or
\* file an error.
C26_FirstFound ==
    /\ [](\A i \in Tasks : pc[i] = "query" /\ tgt[i] = 1 => ver[i] = "")
    /\ [][C26_Step]_vars

\* C26 witness: the one host had two targets; both answered, one with v1 and
\* no indication, one with v2 and one indication; the host is counted under
\* v1, so v1 was the first and v2 did not replace it.
C26_Witness ==
    /\ NumHosts = 1
    /\ nTargets = 2
    /\ pc[1] = "release"
    /\ nInd[1] = 1
    /\ failedNames = {}
    /\ DOMAIN versionCounts = {"v1"}
    /\ versionCounts["v1"] = 1

\* ------------------------------------------------------------ termination
\* C27: under a fair scheduler, with queries that return, every goroutine
\* spawned passes the gate, passes it once, and ends with its token given
\* back whether its queries failed or not; RunE returns; while it has not
\* returned something can always run; the tokens in the gate are those of
\* the goroutines past it, and none is left when RunE returns.
C27_Terminates ==
    /\ <>(mainpc = "returned")
    /\ \A i \in Tasks : (pc[i] = "sem") ~> (pc[i] \in HoldingPcs)
    /\ \A i \in Tasks : (pc[i] \in HoldingPcs) ~> (pc[i] = "exit")
    /\ [](mainpc /= "returned" => ENABLED Next)
    /\ [](sem = Cardinality(InFlight))
    /\ [](mainpc = "returned" =>
            /\ sem = 0
            /\ wg = 0
            /\ \A i \in Tasks : pc[i] \in {"idle", "exit"}
            /\ ValidRun => \A i \in 1..NumHosts : pc[i] = "exit")
    /\ [][\A i \in Tasks :
            /\ pc[i] = "exit" => pc'[i] = "exit"
            /\ (pc[i] = "sem" /\ pc'[i] /= "sem") => sem' = sem + 1
            /\ (pc[i] = "release" /\ pc'[i] /= "release") => sem' = sem - 1]_vars

\* C27 witness: RunE has returned after two or more hosts went through a
\* gate of one token one at a time, a query of one of them having failed.
C27_Witness ==
    /\ Returned
    /\ NumHosts >= 2
    /\ SemCap = 1
    /\ maxConcurrent = 1
    /\ failedNames /= {}
    /\ sem = 0
    /\ \A i \in 1..NumHosts : pc[i] = "exit"

====
